---- MODULE Spec2Model ----
(***************************************************************************)
(* Model of the security remediation pipeline:                             *)
(*   scripts/apply_fixes.py  - FixApplier (Spec)                            *)
(*   scripts/parse_sarif.py  - scanner adapters and aggregator (SpecMerge) *)
(*                                                                         *)
(* File contents are sequences of characters.  "LF" and "CR" stand for the *)
(* line feed and carriage return characters.  Files are read and written   *)
(* in Python text mode on a POSIX host: reading translates CR LF and a     *)
(* lone CR to LF (universal newlines), writing writes LF as LF.            *)
(***************************************************************************)
EXTENDS Integers, Sequences, FiniteSets, TLC

VARIABLES
    \* ---- FixApplier (apply_fixes.py) ----
    dry_run,        \* self.dry_run
    files,          \* filesystem: path -> content, or Absent
    backups,        \* filesystem: path -> content of "<path>.backup", or Absent
    docs,           \* filesystem: recommendations document -> blocks, or Absent
    applied_fixes,  \* self.applied_fixes (the 'type' of each entry)
    failed_fixes,   \* self.failed_fixes (the kind of each message)
    success_count,  \* local success_count of apply_fixes
    pc,             \* position of the single thread of control
    fix,            \* the proposal being (or last) processed
    lines,          \* local `lines` of the running handler
    remaining,      \* proposals of the list not yet reached by the loop
    io_budget,      \* I/O errors the environment may still raise
    \* history variables (not program state; used to state the claims)
    files0,         \* files at the start of the pass
    backups0,       \* backups at the start of the pass
    docs0,          \* docs at the start of the pass
    pre,            \* files when the current handler was entered
    result,         \* outcome of the last proposal
    total,          \* proposals reached by the loop so far
    unknown_count,  \* proposals skipped by `continue` (unknown type)
    io_failed,      \* an I/O error was raised while handling `fix`
    \* ---- Aggregator (parse_sarif.py) ----
    mpc,            \* position in main()
    sarif_left,     \* sarif files of the glob not yet parsed
    findings_left,  \* records the scanner files not yet read may still hold
    all_vulnerabilities, \* the dict built by main(), without 'summary'
    summary,        \* all_vulnerabilities['summary']
    merged,         \* content of merged-results.json, or Absent
    natives,        \* history: the tool-native severity of each emitted record
    \* ---- Remediator (ai_remediation.py) ----
    rpc,            \* position in process_vulnerabilities
    vulns_left,     \* records of each group of the report not yet reached
    fixes,          \* self.fixes (type and rule of each proposal)
    valid_answers   \* history: the records whose generation call answered
                    \* with a valid proposal, in report order

applier_vars ==
    << dry_run, files, backups, docs, applied_fixes, failed_fixes, success_count,
       pc, fix, lines, remaining, io_budget, files0, backups0, docs0, pre,
       result, total, unknown_count, io_failed >>

merge_vars ==
    << mpc, sarif_left, findings_left, all_vulnerabilities, summary, merged,
       natives >>

remediate_vars == << rpc, vulns_left, fixes, valid_answers >>

vars == << applier_vars, merge_vars, remediate_vars >>

----------------------------------------------------------------------------
\* Bounds of the model

MaxFixes == 2      \* proposals in fixes.json
MaxLines == 2      \* lines of a source file at the start of the pass
MaxIOErrors == 1   \* I/O errors raised by the environment during one pass
MaxSarifFiles == 2 \* files matched by sarif-results/**/*.sarif
MaxFindings == 3   \* records in all scanner files together

----------------------------------------------------------------------------
\* Characters and strings

\* the content of a file that does not exist (no file holds this character)
Absent == <<"ABSENT">>
LF == "LF"
CR == "CR"
SP == "SP"

RECURSIVE Concat(_)
\* ''.join(seq_of_strings)
Concat(ss) == IF ss = << >> THEN << >> ELSE Head(ss) \o Concat(Tail(ss))

\* all prefixes of a string, the string itself included
Prefixes(s) == { SubSeq(s, 1, n) : n \in 0 .. Len(s) }

RECURSIVE UniversalNewlines(_)
\* open(path, 'r') with newline=None: CR LF and a lone CR are read as LF
UniversalNewlines(s) ==
    IF s = << >> THEN << >>
    ELSE IF Head(s) = CR
         THEN IF Len(s) >= 2 /\ s[2] = LF
              THEN <<LF>> \o UniversalNewlines(Tail(Tail(s)))
              ELSE <<LF>> \o UniversalNewlines(Tail(s))
         ELSE <<Head(s)>> \o UniversalNewlines(Tail(s))

RECURSIVE SplitLines(_, _)
\* str.splitlines(keepends=True) on LF only, as f.readlines() does;
\* cur is the line being accumulated
SplitLines(s, cur) ==
    IF s = << >> THEN (IF cur = << >> THEN << >> ELSE <<cur>>)
    ELSE IF Head(s) = LF
         THEN << cur \o <<LF>> >> \o SplitLines(Tail(s), << >>)
         ELSE SplitLines(Tail(s), cur \o <<Head(s)>>)

\* with open(path, 'r') as f: lines = f.readlines()
ReadLines(content) == SplitLines(UniversalNewlines(content), << >>)

\* f.writelines(lines) on a file opened with 'w' (truncated at open)
WriteLines(ls) == Concat(ls)

\* Python list indexing lines[i]: a negative index counts from the end
PyIndexOk(ls, i) == (0 - Len(ls)) <= i /\ i < Len(ls)
PyIndex(ls, i) == IF i >= 0 THEN i + 1 ELSE Len(ls) + i + 1

IsSpace(c) == c \in {SP, LF, CR}

RECURSIVE LStrip(_)
LStrip(s) == IF s # << >> /\ IsSpace(Head(s)) THEN LStrip(Tail(s)) ELSE s

RECURSIVE RStrip(_)
RStrip(s) ==
    IF s # << >> /\ IsSpace(s[Len(s)]) THEN RStrip(SubSeq(s, 1, Len(s) - 1)) ELSE s

\* str.strip()
Strip(s) == LStrip(RStrip(s))

----------------------------------------------------------------------------
\* The filesystem the Fix Applier works on

SourceFile == "app.py"
GoneFile == "gone.py"                 \* a path at which no file exists
RequirementsFile == "requirements.txt"
Paths == {SourceFile, GoneFile, RequirementsFile}

ConfigDoc == "security-config-recommendations.md"
CodeDoc == "security-code-recommendations.md"
DocNames == {ConfigDoc, CodeDoc}

\* line terminators of the files found on disk; the last line may have none
Terminators == { <<LF>>, <<CR, LF>> }

RECURSIVE SourceTexts(_)
\* source files of exactly n lines, each line "a" and a terminator, the last
\* line with or without one
SourceTexts(n) ==
    IF n = 0 THEN { << >> }
    ELSE IF n = 1 THEN { <<"a">> \o t : t \in Terminators \cup { << >> } }
    ELSE { (<<"a">> \o t) \o rest : t \in Terminators, rest \in SourceTexts(n - 1) }

SourceContents == UNION { SourceTexts(n) : n \in 0 .. MaxLines }

\* packages and versions of requirements.txt; "p" is a prefix of "pq"
Packages == { <<"p">>, <<"p", "q">> }
Versions == { <<"2">> }

\* requirements.txt as found on disk
Manifests ==
    { << >>,
      <<"p", "=", "=", "1", LF>>,
      <<"p", "q", "=", "=", "1", LF, "p", "~", "=", "1">>,
      <<"p", "=", "=", "1", CR, LF, "q", "=", "=", "1", CR, LF>>,
      <<"q", "=", "=", "1">>,
      <<"p", "~", "=", "1", LF>> }

\* a backup left behind by an earlier run
StaleBackup == <<"o", LF>>

----------------------------------------------------------------------------
\* Proposals (the records of fixes.json 'fixes')

NoType == "NO_TYPE"        \* the record has no 'type' key
NoFixType == "NO_FIX_TYPE" \* the record has no 'fix_type' key
NoFix == [type |-> "none"]

\* values of fix['line']: 0 is what parse_sarif.py emits for a region without
\* startLine; negative and too large numbers are stale or malformed
LineNumbers == (0 - 1) .. (MaxLines + 1)

\* values of fix['fixed_code']: one line, or text spanning two lines
FixedCodes == { <<"z">>, <<"z", LF, "z">> }

\* payload_ok = FALSE: a key read at the top of the handler is missing
\* has_explanation = FALSE: the record has no 'explanation' key
\* (a malformed record is one record per way of being malformed: the fields
\* the handler does not reach, or reads in the same way, take one value)
SastFixes ==
    [ type : {"sast"}, payload_ok : {TRUE}, has_explanation : {TRUE},
      file : {SourceFile}, line : LineNumbers, fixed_code : FixedCodes ]
    \cup
    [ type : {"sast"}, payload_ok : {TRUE}, has_explanation : {FALSE},
      file : {SourceFile}, line : {1}, fixed_code : { <<"z">> } ]
    \cup
    [ type : {"sast"}, payload_ok : {TRUE}, has_explanation : {TRUE},
      file : {GoneFile}, line : {1}, fixed_code : { <<"z">> } ]
    \cup
    [ type : {"sast"}, payload_ok : {FALSE}, has_explanation : {TRUE},
      file : {SourceFile}, line : {1}, fixed_code : { <<"z">> } ]

DependencyFixes ==
    [ type : {"dependency"}, payload_ok : {TRUE}, has_explanation : {TRUE},
      package : Packages, recommended_version : Versions ]
    \cup
    [ type : {"dependency"}, payload_ok : BOOLEAN, has_explanation : {FALSE},
      package : { <<"p">> }, recommended_version : Versions ]

\* has_files: files_to_modify is not empty
\* has_vulnerability = FALSE: fix['vulnerability']['message'] raises KeyError
DastFixes ==
    [ type : {"dast"}, fix_type : {"config_change", "code_change", "both", NoFixType},
      has_files : BOOLEAN, has_vulnerability : {TRUE} ]
    \cup
    [ type : {"dast"}, fix_type : {"config_change"},
      has_files : {FALSE}, has_vulnerability : {FALSE} ]

OtherFixes == [ type : {"unknown", NoType} ]

Fixes == SastFixes \cup DependencyFixes \cup DastFixes \cup OtherFixes

----------------------------------------------------------------------------
\* FixApplier: helpers of the handlers

\* what an interrupted write of `content` to a file opened with 'w' can
\* leave in the file: a proper prefix of content (the model takes the
\* shortest and the longest)
PartialWrites(content) ==
    { p \in Prefixes(content) : Len(p) = 0 \/ Len(p) = Len(content) - 1 }

\* what a failed shutil.copy2(src, dst) can leave at dst: dst untouched (the
\* copy failed before dst was opened), or a prefix of the source (the model
\* takes the shortest and the longest, the whole source)
FailedCopies(old, content) == {old, << >>, content}

\* a handler that writes without making the backup first
BackupCopy_Skipped(path) == backups

\* shutil.copy2(path, f"{path}.backup"): the filesystem's backups afterwards
BackupCopy(path) == [backups EXCEPT ![path] = files[path]]

\* re.match(f'^{re.escape(package)}[>=<!=]+', line_stripped)
OperatorChars == {">", "=", "<", "!"}
MatchesPackage(package, line_stripped) ==
    /\ Len(line_stripped) > Len(package)
    /\ SubSeq(line_stripped, 1, Len(package)) = package
    /\ line_stripped[Len(package) + 1] \in OperatorChars

\* index of the first line the loop of apply_dependency_fix matches, 0 if none
MatchIndex(ls, package) ==
    LET hits == { i \in 1 .. Len(ls) : MatchesPackage(package, Strip(ls[i])) }
    IN  IF hits = {} THEN 0 ELSE CHOOSE i \in hits : \A j \in hits : i <= j

\* f"{package}>={recommended_version}" + '\n'
NewLine(package, version) == package \o <<">", "=">> \o version \o <<LF>>

\* `lines` after the update loop and the append of apply_dependency_fix
UpdateRequirements(ls, package, version) ==
    LET i == MatchIndex(ls, package)
    IN  IF i # 0 THEN [ls EXCEPT ![i] = NewLine(package, version)]
        ELSE Append(ls, NewLine(package, version))

\* lines[line_number-1] = fixed_code + '\n'
ReplaceLine(ls, line_number, fixed_code) ==
    [ls EXCEPT ![PyIndex(ls, line_number - 1)] = fixed_code \o <<LF>>]

\* the handler appends an entry to applied_fixes and returns True
Succeed(tag) ==
    /\ applied_fixes' = Append(applied_fixes, tag)
    /\ failed_fixes' = failed_fixes
    /\ success_count' = success_count
    /\ result' = "Applied"
    /\ pc' = "returned"
    /\ lines' = << >>

\* the handler appends a message to failed_fixes and returns False
Fail(message) ==
    /\ failed_fixes' = Append(failed_fixes, message)
    /\ applied_fixes' = applied_fixes
    /\ success_count' = success_count
    /\ result' = "Failed"
    /\ pc' = "returned"
    /\ lines' = << >>

\* an exception leaves the handler and reaches the except clause of apply_fixes
Raise ==
    /\ UNCHANGED << applied_fixes, failed_fixes, success_count >>
    /\ result' = "Raised"
    /\ pc' = "returned"
    /\ lines' = << >>

\* self.applied_fixes.append({..., 'description': fix['explanation']}) and
\* return True; a missing 'explanation' raises KeyError inside the handler's
\* try block
RecordApplied(tag, message) ==
    IF fix.has_explanation THEN Succeed(tag) ELSE Fail(message)

\* the environment raises an I/O error
IOError ==
    /\ io_budget > 0
    /\ io_budget' = io_budget - 1
    /\ io_failed' = TRUE

NoIOError == UNCHANGED << io_budget, io_failed >>

history_vars == << files0, backups0, docs0, pre, total, unknown_count >>

----------------------------------------------------------------------------
\* FixApplier.apply_sast_fix

\* file_path = fix['file'] ... and the os.path.exists test
SastEnter ==
    /\ pc = "sast"
    /\ IF ~fix.payload_ok
       THEN Raise                             \* KeyError
       ELSE IF files[fix.file] = Absent
            THEN Fail("File not found")
            ELSE /\ pc' = "sast_backup"
                 /\ UNCHANGED << applied_fixes, failed_fixes, success_count,
                                 result, lines >>
    /\ NoIOError
    /\ UNCHANGED << dry_run, files, backups, docs, fix, remaining, history_vars,
                    merge_vars, remediate_vars >>

\* if not self.dry_run: shutil.copy2(file_path, backup_path)
SastBackup ==
    /\ pc = "sast_backup"
    /\ \/ /\ dry_run
          /\ pc' = "sast_read"
          /\ NoIOError
          /\ UNCHANGED << backups, applied_fixes, failed_fixes, success_count,
                          result, lines >>
       \/ /\ ~dry_run
          /\ backups' = BackupCopy(fix.file)
          /\ pc' = "sast_read"
          /\ NoIOError
          /\ UNCHANGED << applied_fixes, failed_fixes, success_count, result,
                          lines >>
       \/ /\ ~dry_run
          /\ IOError
          /\ \E b \in FailedCopies(backups[fix.file], files[fix.file]) :
                backups' = [backups EXCEPT ![fix.file] = b]
          /\ Fail("Error in file")
    /\ UNCHANGED << dry_run, files, docs, fix, remaining, history_vars,
                    merge_vars, remediate_vars >>

\* lines = f.readlines(), the line number test, the print of the original
\* line and, in a dry run, the rest of the handler
SastRead ==
    /\ pc = "sast_read"
    /\ \/ /\ IOError
          /\ Fail("Error in file")
       \/ /\ NoIOError
          /\ LET ls == ReadLines(files[fix.file])
             IN  IF fix.line > Len(ls)
                 THEN Fail("Invalid line number")
                 ELSE IF ~PyIndexOk(ls, fix.line - 1)
                      THEN Fail("Error in file")       \* IndexError
                      ELSE IF dry_run
                           THEN RecordApplied("sast", "Error in file")
                           ELSE /\ lines' = ls
                                /\ pc' = "sast_open"
                                /\ UNCHANGED << applied_fixes, failed_fixes,
                                                success_count, result >>
    /\ UNCHANGED << dry_run, files, backups, docs, fix, remaining, history_vars,
                    merge_vars, remediate_vars >>

\* lines[line_number-1] = fixed_code + '\n'; open(file_path, 'w')
SastOpen ==
    /\ pc = "sast_open"
    /\ \/ /\ NoIOError
          /\ lines' = ReplaceLine(lines, fix.line, fix.fixed_code)
          /\ files' = [files EXCEPT ![fix.file] = << >>]
          /\ pc' = "sast_write"
          /\ UNCHANGED << applied_fixes, failed_fixes, success_count, result >>
       \/ /\ IOError
          /\ files' = files
          /\ Fail("Error in file")
    /\ UNCHANGED << dry_run, backups, docs, fix, remaining, history_vars,
                    merge_vars, remediate_vars >>

\* f.writelines(lines), close, and the applied_fixes entry
SastWrite ==
    /\ pc = "sast_write"
    /\ \/ /\ NoIOError
          /\ files' = [files EXCEPT ![fix.file] = WriteLines(lines)]
          /\ RecordApplied("sast", "Error in file")
       \/ /\ IOError
          /\ \E part \in PartialWrites(WriteLines(lines)) :
                files' = [files EXCEPT ![fix.file] = part]
          /\ Fail("Error in file")
    /\ UNCHANGED << dry_run, backups, docs, fix, remaining, history_vars,
                    merge_vars, remediate_vars >>

----------------------------------------------------------------------------
\* FixApplier.apply_dependency_fix

\* package = fix['package'] ... and the os.path.exists test
DependencyEnter ==
    /\ pc = "dependency"
    /\ IF ~fix.payload_ok
       THEN Raise                             \* KeyError
       ELSE IF files[RequirementsFile] = Absent
            THEN Fail("Requirements file not found")
            ELSE /\ pc' = "dependency_backup"
                 /\ UNCHANGED << applied_fixes, failed_fixes, success_count,
                                 result, lines >>
    /\ NoIOError
    /\ UNCHANGED << dry_run, files, backups, docs, fix, remaining, history_vars,
                    merge_vars, remediate_vars >>

\* if not self.dry_run: shutil.copy2(requirements_file, backup_path)
DependencyBackup ==
    /\ pc = "dependency_backup"
    /\ \/ /\ dry_run
          /\ pc' = "dependency_read"
          /\ NoIOError
          /\ UNCHANGED << backups, applied_fixes, failed_fixes, success_count,
                          result, lines >>
       \/ /\ ~dry_run
          /\ backups' = BackupCopy(RequirementsFile)
          /\ pc' = "dependency_read"
          /\ NoIOError
          /\ UNCHANGED << applied_fixes, failed_fixes, success_count, result,
                          lines >>
       \/ /\ ~dry_run
          /\ IOError
          /\ \E b \in FailedCopies(backups[RequirementsFile], files[RequirementsFile]) :
                backups' = [backups EXCEPT ![RequirementsFile] = b]
          /\ Fail("Error updating package")
    /\ UNCHANGED << dry_run, files, docs, fix, remaining, history_vars,
                    merge_vars, remediate_vars >>

\* lines = f.readlines(), the update loop and the append; in a dry run the
\* rest of the handler (`updated` is True on every path)
DependencyRead ==
    /\ pc = "dependency_read"
    /\ \/ /\ IOError
          /\ Fail("Error updating package")
       \/ /\ NoIOError
          /\ IF dry_run
             THEN RecordApplied("dependency", "Error updating package")
             ELSE /\ lines' = UpdateRequirements(ReadLines(files[RequirementsFile]),
                                                 fix.package, fix.recommended_version)
                  /\ pc' = "dependency_open"
                  /\ UNCHANGED << applied_fixes, failed_fixes, success_count,
                                  result >>
    /\ UNCHANGED << dry_run, files, backups, docs, fix, remaining, history_vars,
                    merge_vars, remediate_vars >>

\* open(requirements_file, 'w')
DependencyOpen ==
    /\ pc = "dependency_open"
    /\ \/ /\ NoIOError
          /\ files' = [files EXCEPT ![RequirementsFile] = << >>]
          /\ pc' = "dependency_write"
          /\ UNCHANGED << applied_fixes, failed_fixes, success_count, result,
                          lines >>
       \/ /\ IOError
          /\ files' = files
          /\ Fail("Error updating package")
    /\ UNCHANGED << dry_run, backups, docs, fix, remaining, history_vars,
                    merge_vars, remediate_vars >>

\* f.writelines(lines), close, and the applied_fixes entry
DependencyWrite ==
    /\ pc = "dependency_write"
    /\ \/ /\ NoIOError
          /\ files' = [files EXCEPT ![RequirementsFile] = WriteLines(lines)]
          /\ RecordApplied("dependency", "Error updating package")
       \/ /\ IOError
          /\ \E part \in PartialWrites(WriteLines(lines)) :
                files' = [files EXCEPT ![RequirementsFile] = part]
          /\ Fail("Error updating package")
    /\ UNCHANGED << dry_run, backups, docs, fix, remaining, history_vars,
                    merge_vars, remediate_vars >>

----------------------------------------------------------------------------
\* FixApplier.apply_dast_fix

\* fix.get('fix_type', 'code_change')
FixType(f) == IF f.fix_type = NoFixType THEN "code_change" ELSE f.fix_type

NoDocument == "none"

\* the document a DAST proposal is written to, or NoDocument when the handler
\* falls through to `return False`
DastDocument(f) ==
    IF FixType(f) = "config_change" THEN ConfigDoc
    ELSE IF FixType(f) = "code_change" /\ ~f.has_files THEN CodeDoc
    ELSE NoDocument

\* the 'type' of the applied_fixes entry
DastTag(doc) == IF doc = ConfigDoc THEN "dast_config" ELSE "dast_code"

\* with open(doc, 'a') as f: f.write(recommendation)
AppendBlock(old, block) == (IF old = Absent THEN << >> ELSE old) \o <<block>>

\* a handler that writes the recommendation without testing self.dry_run
DastWrite_IgnoringDryRun(doc) == [docs EXCEPT ![doc] = AppendBlock(docs[doc], doc)]

\* if not self.dry_run: with open(doc, 'a') as f: f.write(recommendation);
\* the recommendations documents afterwards
DastWrite(doc) ==
    IF dry_run THEN docs
    ELSE [docs EXCEPT ![doc] = AppendBlock(docs[doc], doc)]

\* what a failed open(doc, 'a') / write can leave: the document untouched,
\* or created empty
FailedAppends(old) == {old} \cup {IF old = Absent THEN << >> ELSE old}

\* the handler returns False without recording anything
ReturnFalse ==
    /\ result' = "Unrecorded"
    /\ pc' = "returned"
    /\ UNCHANGED << applied_fixes, failed_fixes, success_count, lines >>

apply_dast_fix ==
    /\ pc = "dast"
    /\ LET doc == DastDocument(fix)
       IN  IF doc = NoDocument
           THEN ReturnFalse /\ NoIOError /\ docs' = docs
           ELSE IF ~fix.has_vulnerability
                \* KeyError while the recommendation text is formatted
                THEN Raise /\ NoIOError /\ docs' = docs
                ELSE \/ /\ NoIOError
                        /\ docs' = DastWrite(doc)
                        /\ Succeed(DastTag(doc))
                     \/ /\ ~dry_run
                        /\ IOError
                        /\ \E d \in FailedAppends(docs[doc]) :
                              docs' = [docs EXCEPT ![doc] = d]
                        /\ Raise
    /\ UNCHANGED << dry_run, files, backups, fix, remaining, history_vars,
                    merge_vars, remediate_vars >>

----------------------------------------------------------------------------
\* FixApplier.apply_fixes

\* one turn of `for i, fix in enumerate(fixes, 1)`: the print of fix['type']
\* (outside the try block) and the dispatch on fix['type']
apply_fixes_loop ==
    /\ pc = "loop"
    /\ remaining > 0
    /\ \E f \in Fixes :
          /\ fix' = f
          /\ IF f.type = NoType
             THEN \* KeyError raised by the print: apply_fixes is left
                  pc' = "aborted" /\ result' = "Aborted"
             ELSE IF f.type = "unknown"
                  THEN \* `continue`
                       pc' = "returned" /\ result' = "Skipped"
                  ELSE pc' = f.type /\ result' = "Applying"
    /\ remaining' = remaining - 1
    /\ total' = total + 1
    /\ pre' = files
    /\ io_failed' = FALSE
    /\ UNCHANGED << dry_run, files, backups, docs, applied_fixes, failed_fixes,
                    success_count, lines, io_budget, files0, backups0, docs0,
                    unknown_count, merge_vars, remediate_vars >>

\* a loop body without the `continue` of the unknown type: the proposal falls
\* through to the tally and is counted as a failure
apply_fixes_tally_WithoutContinue ==
    /\ pc = "returned"
    /\ success_count' = IF result = "Applied" THEN success_count + 1 ELSE success_count
    /\ failed_fixes' = IF result \in {"Raised", "Skipped"}
                       THEN Append(failed_fixes, "Unexpected error")
                       ELSE failed_fixes
    /\ unknown_count' = IF result = "Skipped" THEN unknown_count + 1 ELSE unknown_count
    /\ pc' = "loop"
    /\ fix' = NoFix
    /\ result' = "none"
    /\ io_failed' = FALSE
    /\ UNCHANGED << dry_run, files, backups, docs, applied_fixes, lines, remaining,
                    io_budget, files0, backups0, docs0, pre, total, merge_vars, remediate_vars >>

\* the end of the loop body: `if success: success_count += 1`, or the except
\* clause `self.failed_fixes.append(f"Unexpected error: {e}")`
apply_fixes_tally ==
    /\ pc = "returned"
    /\ success_count' = IF result = "Applied" THEN success_count + 1 ELSE success_count
    /\ failed_fixes' = IF result = "Raised"
                       THEN Append(failed_fixes, "Unexpected error")
                       ELSE failed_fixes
    /\ unknown_count' = IF result = "Skipped" THEN unknown_count + 1 ELSE unknown_count
    /\ pc' = "loop"
    /\ fix' = NoFix
    /\ result' = "none"
    /\ io_failed' = FALSE
    /\ UNCHANGED << dry_run, files, backups, docs, applied_fixes, lines, remaining,
                    io_budget, files0, backups0, docs0, pre, total, merge_vars, remediate_vars >>

\* the summary and `return success_count, len(self.failed_fixes)`
apply_fixes_return ==
    /\ pc = "loop"
    /\ remaining = 0
    /\ pc' = "done"
    /\ UNCHANGED << dry_run, files, backups, docs, applied_fixes, failed_fixes,
                    success_count, fix, lines, remaining, io_budget,
                    history_vars, result, io_failed, merge_vars, remediate_vars >>

----------------------------------------------------------------------------
\* parse_sarif.py: scanner adapters

NoKey == "NO_KEY"     \* the key is missing from the JSON object

\* all sequences over S of length at most n
RECURSIVE SeqsUpTo(_, _)
SeqsUpTo(S, n) ==
    IF n = 0 THEN { << >> }
    ELSE LET shorter == SeqsUpTo(S, n - 1)
         IN  shorter \cup { Append(q, x) : q \in { r \in shorter : Len(r) = n - 1 }, x \in S }

\* a lookup that passes an unknown level through: severity_map.get(level, level)
get_severity_PassThrough(sarif_result) ==
    LET level == IF sarif_result.level = NoKey THEN "warning" ELSE sarif_result.level
    IN  CASE level = "error" -> "high"
          [] level = "warning" -> "medium"
          [] level = "note" -> "low"
          [] level = "info" -> "info"
          [] OTHER -> level

\* get_severity: severity_map.get(result.get('level', 'warning'), 'medium')
get_severity(sarif_result) ==
    LET level == IF sarif_result.level = NoKey THEN "warning" ELSE sarif_result.level
    IN  CASE level = "error" -> "high"
          [] level = "warning" -> "medium"
          [] level = "note" -> "low"
          [] level = "info" -> "info"
          [] OTHER -> "medium"

\* 'High' in risk_desc: risk_desc is modelled as its sequence of words
Contains(risk_desc, word) == \E i \in 1 .. Len(risk_desc) : risk_desc[i] = word

map_zap_severity(risk_desc) ==
    IF Contains(risk_desc, "High") THEN "high"
    ELSE IF Contains(risk_desc, "Medium") THEN "medium"
    ELSE IF Contains(risk_desc, "Low") THEN "low"
    ELSE "info"

\* a SARIF location: has_start_line = FALSE when region has no startLine
SarifLocations ==
    [ uri : {"app.py"}, has_start_line : {TRUE}, startLine : {1} ]
    \cup [ uri : {"app.py"}, has_start_line : {FALSE}, startLine : {0} ]

\* the records of run['results']: every level with one rule and no location,
\* a record without ruleId, records with a location; corrupt = TRUE: the
\* record is not a JSON object
SarifResults ==
    [ corrupt : {FALSE}, ruleId : {"r1"},
      level : {"error", "warning", "note", "info", "none", NoKey},
      locations : { << >> } ]
    \cup
    [ corrupt : {FALSE}, ruleId : {NoKey}, level : {"error"}, locations : { << >> } ]
    \cup
    [ corrupt : {FALSE}, ruleId : {"r1"}, level : {"error"},
      locations : { <<loc>> : loc \in SarifLocations } ]
    \cup
    [ corrupt : {TRUE}, ruleId : {NoKey}, level : {NoKey}, locations : { << >> } ]

\* the entry of vuln['locations'] for one SARIF location
SarifLocation(location) ==
    [ file |-> location.uri,
      line |-> IF location.has_start_line THEN location.startLine ELSE 0 ]

\* the vuln dict built for one result
SarifVulnerability(sarif_result) ==
    [ type |-> "sast", tool |-> "CodeQL",
      rule_id |-> IF sarif_result.ruleId = NoKey THEN "unknown" ELSE sarif_result.ruleId,
      severity |-> get_severity(sarif_result),
      locations |-> [ i \in 1 .. Len(sarif_result.locations) |->
                        SarifLocation(sarif_result.locations[i]) ] ]

\* a scanner file: missing, not JSON, JSON of another shape than the adapter
\* reads, or the records it holds
FileStates == {"missing", "invalid_json", "wrong_shape", "ok"}

\* the adapters return [raised |-> an exception left the adapter,
\*                      vulnerabilities |-> the list returned otherwise]
Returned(vs) == [raised |-> FALSE, vulnerabilities |-> vs]
Raised == [raised |-> TRUE, vulnerabilities |-> << >>]

\* parse_codeql_sarif: FileNotFoundError and JSONDecodeError are caught, the
\* AttributeError of `.get` on a value that is not an object is not
parse_codeql_sarif(state, results) ==
    IF state \in {"missing", "invalid_json"} THEN Returned(<< >>)
    ELSE IF state = "wrong_shape" THEN Raised
    ELSE IF \E i \in 1 .. Len(results) : results[i].corrupt THEN Raised
    ELSE Returned([ i \in 1 .. Len(results) |-> SarifVulnerability(results[i]) ])

\* the records of safety-results.json
SafetyRecords ==
    [ corrupt : {FALSE}, id : {"1", NoKey}, package : {"p"} ]
    \cup [ corrupt : {TRUE}, id : {NoKey}, package : {"p"} ]

SafetyVulnerability(record) ==
    [ type |-> "dependency", tool |-> "Safety",
      rule_id |-> IF record.id = NoKey THEN "safety-unknown" ELSE "safety-1",
      severity |-> "high",
      locations |-> << [ file |-> "requirements.txt", line |-> 0 ] >> ]

\* parse_safety_results
parse_safety_results(state, records) ==
    IF state \in {"missing", "invalid_json"} THEN Returned(<< >>)
    ELSE IF state = "wrong_shape" THEN Raised
    ELSE IF \E i \in 1 .. Len(records) : records[i].corrupt THEN Raised
    ELSE Returned([ i \in 1 .. Len(records) |-> SafetyVulnerability(records[i]) ])

\* values of alert['riskdesc'] ("risk (confidence)"), << >> when missing
RiskDescs ==
    { <<"High", "Medium">>, <<"Medium", "Low">>, <<"Low", "High">>,
      <<"Informational", "Medium">>, <<"Critical">>, << >> }

ZapAlerts ==
    [ corrupt : {FALSE}, pluginid : {"10"}, riskdesc : RiskDescs ]
    \cup [ corrupt : {TRUE}, pluginid : {"10"}, riskdesc : { << >> } ]

ZapVulnerability(alert) ==
    [ type |-> "dast", tool |-> "OWASP ZAP",
      rule_id |-> "zap-10",
      severity |-> map_zap_severity(alert.riskdesc),
      locations |-> << [ file |-> "http://app/", line |-> 0 ] >> ]

\* parse_zap_results, for the one zap_report.json the glob finds
parse_zap_results(state, alerts) ==
    IF state \in {"missing", "invalid_json"} THEN Returned(<< >>)
    ELSE IF state = "wrong_shape" THEN Raised
    ELSE IF \E i \in 1 .. Len(alerts) : alerts[i].corrupt THEN Raised
    ELSE Returned([ i \in 1 .. Len(alerts) |-> ZapVulnerability(alerts[i]) ])

----------------------------------------------------------------------------
\* parse_sarif.py: main (the aggregator)

Groups == {"sast", "dependencies", "dast"}
Severities == {"high", "medium", "low", "info"}

\* number of records of severity sev in all three groups
CountSeverity(vulns, sev) ==
    Cardinality({ <<g, i>> \in UNION { {g} \X (1 .. Len(vulns[g])) : g \in Groups } :
                    vulns[g][i].severity = sev })

\* get_severity_breakdown
get_severity_breakdown(vulns) == [ sev \in Severities |-> CountSeverity(vulns, sev) ]

\* all_vulnerabilities['summary']
Summary(vulns) ==
    [ total_vulnerabilities |->
          Len(vulns.sast) + Len(vulns.dependencies) + Len(vulns.dast),
      sast_count |-> Len(vulns.sast),
      dependency_count |-> Len(vulns.dependencies),
      dast_count |-> Len(vulns.dast),
      severity_breakdown |-> get_severity_breakdown(vulns) ]

NoSummary == [ total_vulnerabilities |-> 0 - 1 ]
NoReport == [ written |-> FALSE ]

\* all_vulnerabilities[group].extend(vs), or the exception leaves main()
Extend(group, parsed, next_pc) ==
    IF parsed.raised
    THEN mpc' = "crashed" /\ all_vulnerabilities' = all_vulnerabilities
    ELSE /\ mpc' = next_pc
         /\ all_vulnerabilities' =
               [all_vulnerabilities EXCEPT
                   ![group] = all_vulnerabilities[group] \o parsed.vulnerabilities]

\* history: the tool-native severity values of the records an adapter emitted
NoNatives == [sast |-> << >>, dast |-> << >>]
Natives(group, parsed, values) ==
    IF parsed.raised THEN natives
    ELSE [natives EXCEPT ![group] = natives[group] \o values]

\* for sarif_file in sarif_files: parse_codeql_sarif, extend
main_sast ==
    /\ mpc = "sast"
    /\ sarif_left > 0
    /\ \E state \in FileStates :
       \E results \in (IF state = "ok" THEN SeqsUpTo(SarifResults, findings_left)
                       ELSE { << >> }) :
          /\ Extend("sast", parse_codeql_sarif(state, results), "sast")
          /\ natives' = Natives("sast", parse_codeql_sarif(state, results),
                                [ i \in 1 .. Len(results) |-> results[i].level ])
          /\ findings_left' = findings_left - Len(results)
    /\ sarif_left' = sarif_left - 1
    /\ UNCHANGED << summary, merged, applier_vars, remediate_vars >>

\* parse_safety_results('safety-results.json'), extend
main_dependencies ==
    /\ mpc = "sast"
    /\ sarif_left = 0
    /\ \E state \in FileStates :
       \E records \in (IF state = "ok" THEN SeqsUpTo(SafetyRecords, findings_left)
                       ELSE { << >> }) :
          /\ Extend("dependencies", parse_safety_results(state, records), "dast")
          /\ findings_left' = findings_left - Len(records)
    /\ UNCHANGED << sarif_left, summary, merged, natives, applier_vars, remediate_vars >>

\* parse_zap_results(), extend
main_dast ==
    /\ mpc = "dast"
    /\ \E state \in FileStates :
       \E alerts \in (IF state = "ok" THEN SeqsUpTo(ZapAlerts, findings_left)
                      ELSE { << >> }) :
          /\ Extend("dast", parse_zap_results(state, alerts), "summary")
          /\ natives' = Natives("dast", parse_zap_results(state, alerts),
                                [ i \in 1 .. Len(alerts) |-> alerts[i].riskdesc ])
          /\ findings_left' = findings_left - Len(alerts)
    /\ UNCHANGED << sarif_left, summary, merged, applier_vars, remediate_vars >>

\* all_vulnerabilities['summary'] = {...}
main_summary ==
    /\ mpc = "summary"
    /\ summary' = Summary(all_vulnerabilities)
    /\ mpc' = "write"
    /\ UNCHANGED << sarif_left, findings_left, all_vulnerabilities, merged,
                    natives, applier_vars, remediate_vars >>

\* json.dump(all_vulnerabilities, f) into merged-results.json
main_write ==
    /\ mpc = "write"
    /\ merged' = [ written |-> TRUE,
                   sast |-> all_vulnerabilities.sast,
                   dependencies |-> all_vulnerabilities.dependencies,
                   dast |-> all_vulnerabilities.dast,
                   summary |-> summary ]
    /\ mpc' = "done"
    /\ UNCHANGED << sarif_left, findings_left, all_vulnerabilities, summary,
                    natives, applier_vars, remediate_vars >>

\* the idle state of the aggregator while the Fix Applier runs
MergeIdle ==
    /\ mpc = "idle"
    /\ sarif_left = 0
    /\ findings_left = 0
    /\ all_vulnerabilities = [sast |-> << >>, dependencies |-> << >>, dast |-> << >>]
    /\ summary = NoSummary
    /\ merged = NoReport
    /\ natives = NoNatives

\* the remediator before it is started
RemediateIdle ==
    /\ rpc = "idle"
    /\ vulns_left = [sast |-> 0, dependencies |-> 0, dast |-> 0]
    /\ fixes = << >>
    /\ valid_answers = << >>

\* the files found on disk: every source file with one manifest and every
\* manifest with one source file, on a disk no earlier run has touched; and
\* one disk on which an earlier run left backups and recommendations
DefaultSource == <<"a", LF, "a", LF>>
DefaultManifest == <<"p", "=", "=", "1", LF>>
InitialDisks ==
    ((SourceContents \cup {Absent}) \X {DefaultManifest} \X {FALSE})
    \cup ({DefaultSource} \X (Manifests \cup {Absent}) \X {FALSE})
    \cup ({DefaultSource} \X {DefaultManifest} \X {TRUE})

InitFilesystem ==
    \E disk \in InitialDisks :
        LET src == disk[1]  req == disk[2]  earlier == disk[3] IN
        /\ files = [p \in Paths |->
                      IF p = SourceFile THEN src
                      ELSE IF p = RequirementsFile THEN req ELSE Absent]
        /\ backups = [p \in Paths |->
                        IF earlier /\ files[p] # Absent THEN StaleBackup ELSE Absent]
        /\ docs = [d \in DocNames |-> IF earlier THEN <<"old">> ELSE Absent]

\* FixApplier(dry_run) and the fixes.json just loaded
Init ==
    /\ dry_run \in BOOLEAN
    /\ InitFilesystem
    /\ applied_fixes = << >>
    /\ failed_fixes = << >>
    /\ success_count = 0
    /\ pc = "loop"
    /\ fix = NoFix
    /\ lines = << >>
    /\ remaining \in 0 .. MaxFixes
    /\ io_budget = MaxIOErrors
    /\ files0 = files
    /\ backups0 = backups
    /\ docs0 = docs
    /\ pre = files
    /\ result = "none"
    /\ total = 0
    /\ unknown_count = 0
    /\ io_failed = FALSE
    /\ MergeIdle
    /\ RemediateIdle

Next ==
    \/ apply_fixes_loop
    \/ apply_fixes_tally
    \/ apply_fixes_return
    \/ SastEnter
    \/ SastBackup
    \/ SastRead
    \/ SastOpen
    \/ SastWrite
    \/ DependencyEnter
    \/ DependencyBackup
    \/ DependencyRead
    \/ DependencyOpen
    \/ DependencyWrite
    \/ apply_dast_fix

Spec == Init /\ [][Next]_vars

\* the Fix Applier at rest while the aggregator runs
ApplierIdle ==
    /\ dry_run = TRUE
    /\ files = [p \in Paths |-> Absent]
    /\ backups = [p \in Paths |-> Absent]
    /\ docs = [d \in DocNames |-> Absent]
    /\ applied_fixes = << >>
    /\ failed_fixes = << >>
    /\ success_count = 0
    /\ pc = "idle"
    /\ fix = NoFix
    /\ lines = << >>
    /\ remaining = 0
    /\ io_budget = 0
    /\ files0 = files
    /\ backups0 = backups
    /\ docs0 = docs
    /\ pre = files
    /\ result = "none"
    /\ total = 0
    /\ unknown_count = 0
    /\ io_failed = FALSE

\* main() of parse_sarif.py after the glob of the sarif files
InitMerge ==
    /\ mpc = "sast"
    /\ sarif_left \in 0 .. MaxSarifFiles
    /\ findings_left = MaxFindings
    /\ all_vulnerabilities = [sast |-> << >>, dependencies |-> << >>, dast |-> << >>]
    /\ summary = NoSummary
    /\ merged = NoReport
    /\ natives = NoNatives
    /\ ApplierIdle
    /\ RemediateIdle

NextMerge ==
    \/ main_sast
    \/ main_dependencies
    \/ main_dast
    \/ main_summary
    \/ main_write

SpecMerge == InitMerge /\ [][NextMerge]_vars

----------------------------------------------------------------------------
\* Properties of the Fix Applier (checked under Spec)

\* the file a CodeChange or DependencyBump proposal mutates
Target(f) == IF f.type = "sast" THEN f.file ELSE RequirementsFile

\* the lines of a file as stored on disk, byte for byte (no newline
\* translation): each ends with its LF, the last one possibly without
RawLines(content) == SplitLines(content, << >>)

\* a line without its terminating LF
Body(line) ==
    IF line # << >> /\ line[Len(line)] = LF THEN SubSeq(line, 1, Len(line) - 1)
    ELSE line

\* a handler has just returned for a well-formed CodeChange proposal on a file
\* that exists
CodeChangeHandled ==
    /\ pc = "returned"
    /\ fix.type = "sast"
    /\ fix.payload_ok
    /\ pre[fix.file] # Absent

\* C1: a DryRun pass never mutates the filesystem: at every point of the pass
\* the content of every file, the existence and content of every .backup file
\* and both recommendations documents are as they were at the start.
C1_DryRunNeverMutates ==
    dry_run => (files = files0 /\ backups = backups0 /\ docs = docs0)

\* a finished DryRun pass that reported a CodeChange and a recommendation as
\* applied
C1_Witness ==
    /\ dry_run
    /\ pc = "done"
    /\ \E i, j \in 1 .. Len(applied_fixes) :
          applied_fixes[i] = "sast" /\ applied_fixes[j] \in {"dast_config", "dast_code"}

\* C2: Execute-mode CodeChange on an existing file of n lines with target
\* line k in [1, n]: afterwards the file has n lines, every line other than k
\* is byte-identical to the original, line k is the replacement text, and the
\* backup is byte-identical to the file before the mutation.  (Stated for a
\* replacement text of one line: a text that spans several lines cannot be
\* one line of the file.)
C2_CodeChangeExact ==
    (CodeChangeHandled /\ ~dry_run /\ ~io_failed
       /\ fix.line \in 1 .. Len(RawLines(pre[fix.file]))
       /\ \A i \in 1 .. Len(fix.fixed_code) : fix.fixed_code[i] # LF)
    => LET before == RawLines(pre[fix.file])
           after == RawLines(files[fix.file])
       IN  /\ Len(after) = Len(before)
           /\ \A i \in 1 .. Len(before) : i # fix.line => after[i] = before[i]
           /\ Body(after[fix.line]) = fix.fixed_code
           /\ backups[fix.file] = pre[fix.file]

\* C3: a CodeChange proposal whose line is not within [1, line_count] of the
\* current file ends Failed and leaves the file unmodified, in both modes.
C3_LineOutOfRangeFails ==
    (CodeChangeHandled /\ fix.line \notin 1 .. Len(ReadLines(pre[fix.file])))
    => (result = "Failed" /\ files[fix.file] = pre[fix.file])

\* C4: whatever happens to one proposal, the proposals after it are attempted
\* and the pass returns its counts: a pass ends only by returning, with no
\* proposal left.
C4_PartialFailureTolerant ==
    (pc \in {"done", "aborted"}) => (pc = "done" /\ remaining = 0)

\* C5: in Execute mode, an I/O error during the backup or the write of a
\* CodeChange or DependencyBump ends the proposal Failed with the target
\* file's content as it was before the attempt.
C5_IOErrorLeavesTargetIntact ==
    (pc = "returned" /\ ~dry_run /\ io_failed /\ fix.type \in {"sast", "dependency"})
    => (result = "Failed" /\ files[Target(fix)] = pre[Target(fix)])

\* C6: at every point of an Execute pass every file whose content differs
\* from its content at the start of the pass has a backup file, and while a
\* handler has its target open for writing the backup holds the content the
\* target had before the write.
C6_BackupBeforeWrite ==
    ~dry_run =>
       /\ \A p \in Paths : files[p] # files0[p] => backups[p] # Absent
       /\ pc \in {"sast_open", "sast_write", "dependency_open", "dependency_write"}
             => backups[Target(fix)] = pre[Target(fix)]

\* an Execute pass stopped in the middle of a write: the file is truncated
\* and had no backup when the pass started
C6_Witness ==
    /\ ~dry_run
    /\ pc = "sast_write"
    /\ backups0[SourceFile] = Absent
    /\ files[SourceFile] # files0[SourceFile]

\* C7: after an Execute pass, the backup of every file the pass mutated is
\* byte-identical to the content the file had before the pass started.
\* (Stated for a pass during which no I/O error was raised.)
C7_BackupRollsBackPass ==
    (pc = "done" /\ ~dry_run /\ io_budget = MaxIOErrors)
    => \A p \in Paths : files[p] # files0[p] => backups[p] = files0[p]

\* C8: every proposal ends in exactly one of Applied, Failed, Skipped: after
\* the pass the three counts add up to the number of proposals.
C8_EveryProposalTerminal ==
    pc = "done" => success_count + Len(failed_fixes) + unknown_count = total

----------------------------------------------------------------------------
\* Properties of the aggregator (checked under SpecMerge)

\* the identity tuple of a Vulnerability: tool, rule_id, first location
\* (a sequence of no or one location)
Identity(v) == << v.tool, v.rule_id, SubSeq(v.locations, 1, IF v.locations = << >> THEN 0 ELSE 1) >>

\* C9: the written report holds, in each group, no two records with the same
\* identity tuple.
C9_NoDuplicateIdentity ==
    merged.written =>
        \A g \in Groups : \A i, j \in 1 .. Len(merged[g]) :
            i # j => Identity(merged[g][i]) # Identity(merged[g][j])

\* C10: in the written report total_vulnerabilities is the sum of the three
\* group lengths, the three counts are the group lengths, and the four
\* severity counts add up to total_vulnerabilities.
C10_SummaryCounts ==
    merged.written =>
        LET sm == merged.summary IN
        /\ sm.total_vulnerabilities =
              Len(merged.sast) + Len(merged.dependencies) + Len(merged.dast)
        /\ sm.sast_count = Len(merged.sast)
        /\ sm.dependency_count = Len(merged.dependencies)
        /\ sm.dast_count = Len(merged.dast)
        /\ sm.severity_breakdown["high"] + sm.severity_breakdown["medium"]
              + sm.severity_breakdown["low"] + sm.severity_breakdown["info"]
           = sm.total_vulnerabilities

\* a written report with findings in all three groups, one of them a SARIF
\* result whose level is not in the lookup table
C10_Witness ==
    /\ merged.written
    /\ Len(merged.sast) >= 1
    /\ Len(merged.dependencies) >= 1
    /\ Len(merged.dast) >= 1
    /\ merged.summary.severity_breakdown["medium"] >= 1

----------------------------------------------------------------------------
\* Properties of DependencyBump (checked under Spec)

\* the version-constraint operators of a requirements line
ConstraintOperators ==
    { <<"=", "=">>, <<">", "=">>, <<"<", "=">>, <<"!", "=">>, <<"~", "=">>,
      <<"<">>, <<">">> }

HasPrefix(s, prefix) ==
    Len(s) >= Len(prefix) /\ SubSeq(s, 1, Len(prefix)) = prefix

\* the line is an entry for the package: its name followed immediately by a
\* constraint operator
EntryFor(package, line) ==
    \E op \in ConstraintOperators : HasPrefix(Strip(line), package \o op)

\* the indices of the entries for the package among the lines
Entries(package, ls) == { i \in 1 .. Len(ls) : EntryFor(package, ls[i]) }

\* the text of the entry a DependencyBump writes, without its newline
Wanted(f) == f.package \o <<">", "=">> \o f.recommended_version

\* the content is empty or its last line is terminated
EndsWithNewline(content) == content = << >> \/ content[Len(content)] = LF

\* a handler has just returned for a well-formed DependencyBump proposal in
\* Execute mode, the manifest exists and no I/O error occurred
DependencyBumpHandled ==
    /\ pc = "returned"
    /\ fix.type = "dependency"
    /\ fix.payload_ok
    /\ fix.has_explanation
    /\ ~dry_run
    /\ ~io_failed
    /\ pre[RequirementsFile] # Absent

\* C11: a DependencyBump on a manifest that has an entry for the package
\* (name followed by a constraint operator) ends Applied; the manifest keeps
\* its number of lines, the entry is replaced by `package>=version`, every
\* other line is unchanged and no second entry for the package exists.
\* (Stated for a manifest whose last line ends with a newline.)
C11_EntryReplaced ==
    LET before == RawLines(pre[RequirementsFile])
        after == RawLines(files[RequirementsFile])
    IN  (/\ DependencyBumpHandled
         /\ EndsWithNewline(pre[RequirementsFile])
         /\ Entries(fix.package, before) # {})
        => /\ result = "Applied"
           /\ Len(after) = Len(before)
           /\ \E k \in Entries(fix.package, before) :
                 /\ Body(after[k]) = Wanted(fix)
                 /\ \A i \in (1 .. Len(before)) \ {k} : after[i] = before[i]
           /\ Cardinality(Entries(fix.package, after)) = 1

\* a line without its line terminator, LF or CR LF
RECURSIVE Chomp(_)
Chomp(line) ==
    IF line # << >> /\ line[Len(line)] \in {LF, CR}
    THEN Chomp(SubSeq(line, 1, Len(line) - 1))
    ELSE line

\* C12: a DependencyBump on a manifest with no entry for the package ends
\* Applied; the manifest gains exactly one line, `package>=version`, and the
\* text of every line it had is as before, whether or not the last line
\* ended with a newline.
C12_EntryAppended ==
    LET before == RawLines(pre[RequirementsFile])
        after == RawLines(files[RequirementsFile])
    IN  (DependencyBumpHandled /\ Entries(fix.package, before) = {})
        => /\ result = "Applied"
           /\ Len(after) = Len(before) + 1
           /\ \A i \in 1 .. Len(before) : Chomp(after[i]) = Chomp(before[i])
           /\ Chomp(after[Len(after)]) = Wanted(fix)

\* the line is the package's own line: its bare name, or its name followed
\* by a constraint operator
OwnLine(package, line) == Strip(line) = package \/ EntryFor(package, line)

\* C13: the match is anchored to the full package name: a line of a package
\* whose name merely starts with the proposal's package is never replaced,
\* and the package's own line, bare or with any of the operators ==, >=, <=,
\* !=, ~=, <, >, is the line that is replaced.  (Stated for a manifest whose
\* last line ends with a newline.)
C13_AnchoredMatch ==
    LET before == RawLines(pre[RequirementsFile])
        after == RawLines(files[RequirementsFile])
        own == { i \in 1 .. Len(before) : OwnLine(fix.package, before[i]) }
    IN  (DependencyBumpHandled /\ EndsWithNewline(pre[RequirementsFile]))
        => /\ \A i \in (1 .. Len(before)) \ own :
                 HasPrefix(Strip(before[i]), fix.package)
                 => i <= Len(after) /\ Chomp(after[i]) = Chomp(before[i])
           /\ own # {}
              => /\ Len(after) = Len(before)
                 /\ \E k \in own : Chomp(after[k]) = Wanted(fix)

\* the manifest an Execute-mode DependencyBump without I/O error writes
Bumped(content, f) ==
    WriteLines(UpdateRequirements(ReadLines(content), f.package,
                                  f.recommended_version))

\* C19: an Execute-mode DependencyBump is idempotent: when the second
\* proposal of a pass is the proposal that was applied first, the manifest it
\* leaves is the manifest the first application left.
C19_BumpIdempotent ==
    (/\ DependencyBumpHandled
     /\ result = "Applied"
     /\ total = 2
     /\ io_budget = MaxIOErrors
     /\ pre[RequirementsFile] # files0[RequirementsFile]
     /\ pre[RequirementsFile] = Bumped(files0[RequirementsFile], fix))
    => files[RequirementsFile] = pre[RequirementsFile]

----------------------------------------------------------------------------
\* ai_remediation.py: AIRemediator

\* at most this many records in each group of the report
MaxVulns == 2

\* the records of merged-results.json, as the adapters build them; every
\* record has the keys rule_id, severity, message (and package,
\* installed_version for Safety), a SAST record may have no location
SastVulns == { SarifVulnerability(r) : r \in { x \in SarifResults : ~x.corrupt } }
DependencyVulns == { SafetyVulnerability(r) : r \in { x \in SafetyRecords : ~x.corrupt } }
DastVulns == { ZapVulnerability(a) : a \in { x \in ZapAlerts : ~x.corrupt } }

\* what the API call of a generate_*_fix does: it answers with a JSON object,
\* with JSON that is not an object, with text that is not JSON, or it raises
Answers == {"valid", "not_object", "not_json", "error"}

\* generate_*_fix returned None
NoProposal == [type |-> "none"]

\* generate_sast_fix: location is {} when vulnerability['locations'] is
\* empty; None from `except json.JSONDecodeError` and `except Exception`
generate_sast_fix(vulnerability, answer) ==
    LET file_path == IF vulnerability.locations = << >> THEN ""
                     ELSE vulnerability.locations[1].file
        line_number == IF vulnerability.locations = << >> THEN 0
                       ELSE vulnerability.locations[1].line
    IN  IF answer = "valid"
        THEN [type |-> "sast", file |-> file_path, line |-> line_number]
        ELSE NoProposal

\* generate_dependency_fix: None from `except Exception`
generate_dependency_fix(vulnerability, answer) ==
    IF answer = "valid"
    THEN [type |-> "dependency", file |-> "requirements.txt", line |-> 0]
    ELSE NoProposal

\* generate_dast_fix: None from `except Exception`
generate_dast_fix(vulnerability, answer) ==
    IF answer = "valid"
    THEN [type |-> "dast", file |-> "", line |-> 0]
    ELSE NoProposal

\* `if fix: self.fixes.append(fix)`
AppendProposal(list, proposal) ==
    IF proposal = NoProposal THEN list ELSE Append(list, proposal)

\* one iteration of a loop of process_vulnerabilities over the group
Processed(group, proposal) ==
    /\ fixes' = AppendProposal(fixes, proposal)
    /\ valid_answers' = AppendProposal(valid_answers, proposal)
    /\ vulns_left' = [vulns_left EXCEPT ![group] = vulns_left[group] - 1]
    /\ rpc' = rpc

\* for vuln in vulns['sast']: the print reads vuln['locations'][0] before
\* generate_sast_fix is called; IndexError on an empty list leaves
\* process_vulnerabilities
process_sast ==
    /\ rpc = "sast"
    /\ vulns_left.sast > 0
    /\ \E vuln \in SastVulns, answer \in Answers :
          IF vuln.locations = << >>
          THEN /\ rpc' = "crashed"
               /\ valid_answers' =
                     AppendProposal(valid_answers, generate_sast_fix(vuln, answer))
               /\ UNCHANGED << fixes, vulns_left >>
          ELSE Processed("sast", generate_sast_fix(vuln, answer))
    /\ UNCHANGED << applier_vars, merge_vars >>

\* for vuln in vulns['dependencies']
process_dependencies ==
    /\ rpc = "dependencies"
    /\ vulns_left.dependencies > 0
    /\ \E vuln \in DependencyVulns, answer \in Answers :
          Processed("dependencies", generate_dependency_fix(vuln, answer))
    /\ UNCHANGED << applier_vars, merge_vars >>

\* for vuln in vulns['dast']
process_dast ==
    /\ rpc = "dast"
    /\ vulns_left.dast > 0
    /\ \E vuln \in DastVulns, answer \in Answers :
          Processed("dast", generate_dast_fix(vuln, answer))
    /\ UNCHANGED << applier_vars, merge_vars >>

\* a loop is exhausted: the next loop starts
process_next_group ==
    /\ \/ rpc = "sast" /\ vulns_left.sast = 0 /\ rpc' = "dependencies"
       \/ rpc = "dependencies" /\ vulns_left.dependencies = 0 /\ rpc' = "dast"
    /\ UNCHANGED << vulns_left, fixes, valid_answers, applier_vars, merge_vars >>

\* return self.fixes
process_return ==
    /\ rpc = "dast"
    /\ vulns_left.dast = 0
    /\ rpc' = "done"
    /\ UNCHANGED << vulns_left, fixes, valid_answers, applier_vars, merge_vars >>

\* process_vulnerabilities after the report is loaded
InitRemediate ==
    /\ rpc = "sast"
    /\ vulns_left \in [Groups -> 0 .. MaxVulns]
    /\ fixes = << >>
    /\ valid_answers = << >>
    /\ ApplierIdle
    /\ MergeIdle

NextRemediate ==
    \/ process_sast
    \/ process_dependencies
    \/ process_dast
    \/ process_next_group
    \/ process_return

SpecRemediate == InitRemediate /\ [][NextRemediate]_vars

\* C14: fix generation is fault-isolated per vulnerability: whatever the
\* report holds and whatever a generation call does, the run reaches its end
\* with every vulnerability processed, and the proposal list then holds one
\* proposal per vulnerability whose generation answered with a valid
\* proposal, in report order.
C14_GenerationIsolated ==
    /\ rpc # "crashed"
    /\ rpc = "done"
       => /\ \A g \in Groups : vulns_left[g] = 0
          /\ fixes = valid_answers

----------------------------------------------------------------------------
\* Properties of the adapters (checked under SpecMerge)

\* C15: an adapter never raises: whatever the scanner files hold (missing,
\* not JSON, a record that is not an object, a top level of another shape),
\* no exception leaves an adapter and ends the aggregator.
C15_AdaptersNeverRaise == mpc # "crashed"

\* the severity values the tools define: SARIF levels, ZAP risks (the first
\* word of riskdesc)
KnownLevels == {"error", "warning", "note", "info"}
KnownRisks == {"High", "Medium", "Low", "Informational"}
UnknownLevel(level) == level # NoKey /\ level \notin KnownLevels
UnknownRisk(risk_desc) == risk_desc # << >> /\ risk_desc[1] \notin KnownRisks

\* C18: every adapter maps a tool-native severity it does not know to
\* medium, a SARIF level and a ZAP risk description alike, and every
\* severity in the report is one of high, medium, low, info.
C18_UnknownSeverityIsMedium ==
    /\ \A i \in 1 .. Len(natives.sast) :
          UnknownLevel(natives.sast[i])
          => all_vulnerabilities.sast[i].severity = "medium"
    /\ \A i \in 1 .. Len(natives.dast) :
          UnknownRisk(natives.dast[i])
          => all_vulnerabilities.dast[i].severity = "medium"
    /\ \A g \in Groups : \A i \in 1 .. Len(all_vulnerabilities[g]) :
          all_vulnerabilities[g][i].severity \in Severities

----------------------------------------------------------------------------
\* Properties of the dispatch of apply_fixes (checked under Spec)

\* what a proposal that is neither applied nor failed leaves as it is
OutcomeUnchanged ==
    /\ files' = files
    /\ backups' = backups
    /\ docs' = docs
    /\ applied_fixes' = applied_fixes
    /\ failed_fixes' = failed_fixes
    /\ success_count' = success_count

\* C16: a proposal of an unknown kind is skipped: from the step that takes
\* it from the list to the step that returns to the loop, no file, backup or
\* document changes, nothing is added to the applied or failed proposals, and
\* the loop goes on with the proposals that are left.
C16_UnknownKindSkipped ==
    [][ /\ (pc = "loop" /\ fix'.type = "unknown")
           => (OutcomeUnchanged /\ result' = "Skipped" /\ pc' = "returned")
        /\ (pc = "returned" /\ fix.type = "unknown")
           => (OutcomeUnchanged /\ pc' = "loop" /\ remaining' = remaining)
      ]_vars

\* an Execute pass skipped its first proposal, of an unknown kind, and has
\* applied its second
C16_Witness ==
    /\ ~dry_run
    /\ unknown_count = 1
    /\ total = 2
    /\ pc = "returned"
    /\ result = "Applied"
    /\ files # files0

\* the document is as it was, or it was extended (or created)
Extended(old, new) ==
    IF old = Absent THEN TRUE
    ELSE new # Absent /\ Len(new) >= Len(old) /\ SubSeq(new, 1, Len(old)) = old

\* C17: a ConfigRecommendation applied in Execute mode without I/O error
\* ends Applied whatever its fix_type and file list; it changes no source
\* file and no manifest, and every recommendations document keeps its
\* previous content as a prefix.
C17_RecommendationApplied ==
    (/\ pc = "returned"
     /\ fix.type = "dast"
     /\ fix.has_vulnerability
     /\ ~dry_run
     /\ ~io_failed)
    => /\ result = "Applied"
       /\ files = pre
       /\ \A d \in DocNames : Extended(docs0[d], docs[d])

----------------------------------------------------------------------------
\* DryRun against Execute (checked under Spec)

\* the outcome a DryRun pass reports for proposal f, without I/O error: a
\* DryRun pass never mutates (C1), so each handler sees the filesystem fs
\* the pass started with
DryRunOutcome(f, fs) ==
    CASE f.type = "unknown" -> "Skipped"
      [] f.type = "sast" ->
            IF ~f.payload_ok THEN "Raised"
            ELSE IF fs[f.file] = Absent THEN "Failed"
            ELSE LET ls == ReadLines(fs[f.file])
                 IN  IF f.line > Len(ls) THEN "Failed"
                     ELSE IF ~PyIndexOk(ls, f.line - 1) THEN "Failed"
                     ELSE IF ~f.has_explanation THEN "Failed"
                     ELSE "Applied"
      [] f.type = "dependency" ->
            IF ~f.payload_ok THEN "Raised"
            ELSE IF fs[RequirementsFile] = Absent THEN "Failed"
            ELSE IF ~f.has_explanation THEN "Failed"
            ELSE "Applied"
      [] f.type = "dast" ->
            IF DastDocument(f) = NoDocument THEN "Unrecorded"
            ELSE IF ~f.has_vulnerability THEN "Raised"
            ELSE "Applied"

\* C20: DryRun predicts Execute: without I/O errors, the outcome of every
\* proposal of a pass, in either mode, is the outcome a DryRun pass over the
\* same list and the same initial filesystem reports for it.  (Stated for
\* CodeChange proposals with a target line of 1 or more.)
C20_DryRunPredictsExecute ==
    (/\ pc = "returned"
     /\ io_budget = MaxIOErrors
     /\ fix.type = "sast" => fix.line >= 1)
    => result = DryRunOutcome(fix, files0)

====
